---------------------------- MODULE Spec2Model ----------------------------
(***************************************************************************)
(* A model of gitmeup (src/gitmeup/cli.py): one run of main(), from the    *)
(* credential check to the final status query, with the command extractor, *)
(* the command parser and the execution planner computed as the code       *)
(* computes them.                                                          *)
(*                                                                         *)
(* Text is a sequence of one-character strings, "\n" included, so that     *)
(* splitlines, strip, join, lower and shlex.split are computed and not     *)
(* assumed.                                                                *)
(***************************************************************************)
EXTENDS Integers, Sequences, FiniteSets, TLC

VARIABLES
    pc,          \* position of main(): the next step to take
    api_key,     \* args.api_key after argparse
    apply,       \* args.apply
    procs,       \* log of the external processes invoked so far, in order
    child,       \* index in procs of the child subprocess.run waits for, or 0
    llm_calls,   \* number of calls of call_llm
    raw_output,  \* the model's response text
    bash_block,  \* result of extract_bash_block
    commands,    \* result of parse_commands
    idx,         \* number of plan commands the for loop of run_commands has taken
    printed,     \* what was printed, in order: [fd, msg, arg]
    exit_code,   \* the exit status of the process, NoExit while it runs
    sources,     \* the configuration the run is given: env, global, project, cli
    environ,     \* os.environ, for the two keys the tool reads
    model        \* args.model after argparse

vars == <<pc, api_key, apply, procs, child, llm_calls, raw_output,
          bash_block, commands, idx, printed, exit_code, sources, environ,
          model>>

(***************************************************************************)
(* Bounds                                                                  *)
(***************************************************************************)
\* lines of a response text of the extractor/parser specification
MaxLines == 4
\* body lines of the fenced block of a response of a whole run
MaxCmds == 3
\* child processes exit with 0..MaxCode
MaxCode == 2
\* characters of a token and tokens of a command of the rendering specification
MaxTokLen == 2
MaxToks == 2

NoExit == -1
Running == -1

(***************************************************************************)
(* Text helpers: the str methods the code calls                            *)
(***************************************************************************)
NL == "\n"
\* the backtick character (U+0060), which a TLA+ string literal cannot hold
BQ == "<backtick>"
DQ == "\""
SQ == "'"
BS == "\\"

\* str.strip(), str.splitlines() and shlex agree on these within the alphabet
Whitespace == {" ", NL, "\t", "\r"}

IsBlankChar(c) == c \in Whitespace

RECURSIVE LStrip(_)
LStrip(s) ==
    IF s = <<>> THEN <<>>
    ELSE IF IsBlankChar(Head(s)) THEN LStrip(Tail(s)) ELSE s

RECURSIVE RStrip(_)
RStrip(s) ==
    IF s = <<>> THEN <<>>
    ELSE IF IsBlankChar(s[Len(s)]) THEN RStrip(SubSeq(s, 1, Len(s) - 1)) ELSE s

\* str.strip()
Strip(s) == RStrip(LStrip(s))

\* str.lower() on the letters of the alphabet
LowerChar(c) ==
    CASE c = "B" -> "b"
      [] c = "A" -> "a"
      [] c = "S" -> "s"
      [] c = "H" -> "h"
      [] c = "E" -> "e"
      [] c = "L" -> "l"
      [] OTHER -> c

Lower(s) == [i \in 1..Len(s) |-> LowerChar(s[i])]

\* str.startswith(p)
StartsWith(s, p) == Len(s) >= Len(p) /\ SubSeq(s, 1, Len(p)) = p

\* "\n".join(ls)
RECURSIVE Join(_)
Join(ls) ==
    IF ls = <<>> THEN <<>>
    ELSE IF Len(ls) = 1 THEN ls[1]
    ELSE ls[1] \o <<NL>> \o Join(Tail(ls))

\* index of the first "\n" of s at or after i, 0 when there is none
RECURSIVE FindNL(_, _)
FindNL(s, i) ==
    IF i > Len(s) THEN 0
    ELSE IF s[i] = NL THEN i ELSE FindNL(s, i + 1)

\* str.splitlines(): no empty last line after a final line break
RECURSIVE SplitLines(_)
SplitLines(s) ==
    IF s = <<>> THEN <<>>
    ELSE LET k == FindNL(s, 1)
         IN  IF k = 0 THEN <<s>>
             ELSE <<SubSeq(s, 1, k - 1)>> \o SplitLines(SubSeq(s, k + 1, Len(s)))

(***************************************************************************)
(* extract_bash_block                                                      *)
(***************************************************************************)
Fence == <<BQ, BQ, BQ>>

RecognizedLangs ==
    { <<"b", "a", "s", "h">>, <<"s", "h">>, <<"s", "h", "e", "l", "l">> }

\* lines 159-162: the language of an opening fence line decides lang_ok
LangOk(line) ==
    LET fence == Strip(line)
        lang  == Strip(SubSeq(fence, 4, Len(fence)))
    IN  lang = <<>> \/ Lower(lang) \in RecognizedLangs

\* mutant: every line that is not a fence line is captured
RECURSIVE ExtractScan_CaptureAll(_, _, _, _, _)
ExtractScan_CaptureAll(ls, i, in_block, lang_ok, lines) ==
    IF i > Len(ls) THEN lines
    ELSE IF StartsWith(ls[i], Fence)
         THEN IF ~in_block
              THEN ExtractScan_CaptureAll(ls, i + 1, TRUE, LangOk(ls[i]), lines)
              ELSE lines
         ELSE ExtractScan_CaptureAll(ls, i + 1, in_block, lang_ok, Append(lines, ls[i]))

\* mutant: a block that is still open at the end of the text is dropped
RECURSIVE ExtractScan_DropUnclosed(_, _, _, _, _)
ExtractScan_DropUnclosed(ls, i, in_block, lang_ok, lines) ==
    IF i > Len(ls) THEN IF in_block THEN <<>> ELSE lines
    ELSE IF StartsWith(ls[i], Fence)
         THEN IF ~in_block
              THEN ExtractScan_DropUnclosed(ls, i + 1, TRUE, LangOk(ls[i]), lines)
              ELSE lines
         ELSE IF in_block /\ lang_ok
              THEN ExtractScan_DropUnclosed(ls, i + 1, in_block, lang_ok, Append(lines, ls[i]))
              ELSE ExtractScan_DropUnclosed(ls, i + 1, in_block, lang_ok, lines)

\* the for loop of lines 157-168, from line i on
RECURSIVE ExtractScan(_, _, _, _, _)
ExtractScan(ls, i, in_block, lang_ok, lines) ==
    IF i > Len(ls) THEN lines
    ELSE IF StartsWith(ls[i], Fence)
         THEN IF ~in_block
              THEN ExtractScan(ls, i + 1, TRUE, LangOk(ls[i]), lines)
              ELSE lines
         ELSE IF in_block /\ lang_ok
              THEN ExtractScan(ls, i + 1, in_block, lang_ok, Append(lines, ls[i]))
              ELSE ExtractScan(ls, i + 1, in_block, lang_ok, lines)

\* mutant: the captured text is not trimmed
extract_bash_block_NoStrip(text) ==
    Join(ExtractScan(SplitLines(text), 1, FALSE, FALSE, <<>>))

extract_bash_block(text) ==
    Strip(Join(ExtractScan(SplitLines(text), 1, FALSE, FALSE, <<>>)))

(***************************************************************************)
(* shlex.split(line): the POSIX tokenizer the parser calls, with           *)
(* whitespace_split and no comment characters                              *)
(***************************************************************************)
ShlexQuotes == {DQ, SQ}

\* read_token's state machine over the characters of s from i on.
\* state is " " (between words), "a" (in a word), a quote, or BS (escape);
\* the result is [ok, toks, err].
RECURSIVE ShlexScan(_, _, _, _, _, _, _)
ShlexScan(s, i, state, escapedstate, token, quoted, toks) ==
    LET emit == IF token # <<>> \/ quoted THEN Append(toks, token) ELSE toks
    IN
    IF i > Len(s)
    THEN IF state \in ShlexQuotes
         THEN [ok |-> FALSE, toks |-> <<>>, err |-> "No closing quotation"]
         ELSE IF state = BS
         THEN [ok |-> FALSE, toks |-> <<>>, err |-> "No escaped character"]
         ELSE [ok |-> TRUE, toks |-> emit, err |-> ""]
    ELSE
    LET c == s[i] IN
    IF state = " "
    THEN IF c \in Whitespace
         THEN ShlexScan(s, i + 1, " ", escapedstate, token, quoted, toks)
         ELSE IF c = BS
         THEN ShlexScan(s, i + 1, BS, "a", token, quoted, toks)
         ELSE IF c \in ShlexQuotes
         THEN ShlexScan(s, i + 1, c, escapedstate, token, quoted, toks)
         ELSE ShlexScan(s, i + 1, "a", escapedstate, <<c>>, quoted, toks)
    ELSE IF state \in ShlexQuotes
    THEN IF c = state
         THEN ShlexScan(s, i + 1, "a", escapedstate, token, TRUE, toks)
         ELSE IF c = BS /\ state = DQ
         THEN ShlexScan(s, i + 1, BS, state, token, TRUE, toks)
         ELSE ShlexScan(s, i + 1, state, escapedstate, Append(token, c), TRUE, toks)
    ELSE IF state = BS
    THEN LET keep == escapedstate \in ShlexQuotes /\ c # BS /\ c # escapedstate
             tok2 == IF keep THEN Append(Append(token, BS), c) ELSE Append(token, c)
         IN  ShlexScan(s, i + 1, escapedstate, escapedstate, tok2, quoted, toks)
    ELSE \* state = "a"
         IF c \in Whitespace
         THEN ShlexScan(s, i + 1, " ", escapedstate, <<>>, FALSE, emit)
         ELSE IF c \in ShlexQuotes
         THEN ShlexScan(s, i + 1, c, escapedstate, token, quoted, toks)
         ELSE IF c = BS
         THEN ShlexScan(s, i + 1, BS, "a", token, quoted, toks)
         ELSE ShlexScan(s, i + 1, "a", escapedstate, Append(token, c), quoted, toks)

ShlexSplit(line) == ShlexScan(line, 1, " ", " ", <<>>, FALSE, <<>>)

(***************************************************************************)
(* parse_commands                                                          *)
(***************************************************************************)
\* mutant: blank lines are tokenized like any other line
SkipLine_Never(line) == FALSE

\* line 177: blank and whitespace-only lines are dropped
SkipLine(line) == line = <<>>

\* mutant: a line the tokenizer rejects is dropped and the parse goes on
RECURSIVE ParseScan_SkipBadLines(_, _, _)
ParseScan_SkipBadLines(ls, i, acc) ==
    IF i > Len(ls) THEN [ok |-> TRUE, cmds |-> acc, err |-> ""]
    ELSE LET line == Strip(ls[i]) IN
         IF SkipLine(line) THEN ParseScan_SkipBadLines(ls, i + 1, acc)
         ELSE LET r == ShlexSplit(line) IN
              IF r.ok THEN ParseScan_SkipBadLines(ls, i + 1, Append(acc, r.toks))
              ELSE ParseScan_SkipBadLines(ls, i + 1, acc)

\* the for loop of lines 175-179 from line i on; a ValueError of shlex.split
\* leaves the function without a return value
RECURSIVE ParseScan(_, _, _)
ParseScan(ls, i, acc) ==
    IF i > Len(ls) THEN [ok |-> TRUE, cmds |-> acc, err |-> ""]
    ELSE LET line == Strip(ls[i]) IN
         IF SkipLine(line) THEN ParseScan(ls, i + 1, acc)
         ELSE LET r == ShlexSplit(line) IN
              IF r.ok THEN ParseScan(ls, i + 1, Append(acc, r.toks))
              ELSE [ok |-> FALSE, cmds |-> <<>>, err |-> r.err]

parse_commands(block) == ParseScan(SplitLines(block), 1, <<>>)

(***************************************************************************)
(* shlex.quote(part) and the line run_commands prints for a command        *)
(***************************************************************************)
\* the characters shlex.quote leaves alone: ASCII word characters and @%+=:,./-
SafeChars ==
    {"a", "b", "c", "d", "e", "f", "g", "h", "i", "j", "k", "l", "m", "n",
     "o", "p", "q", "r", "s", "t", "u", "v", "w", "x", "y", "z", "A", "B",
     "C", "D", "E", "F", "G", "H", "I", "J", "K", "L", "M", "N", "O", "P",
     "Q", "R", "S", "T", "U", "V", "W", "X", "Y", "Z", "0", "1", "2", "3",
     "4", "5", "6", "7", "8", "9", "_", "@", "%", "+", "=", ":", ",", ".",
     "/", "-"}

\* s.replace("'", "'\"'\"'")
RECURSIVE EscapeSQ(_)
EscapeSQ(s) ==
    IF s = <<>> THEN <<>>
    ELSE IF Head(s) = SQ THEN <<SQ, DQ, SQ, DQ, SQ>> \o EscapeSQ(Tail(s))
    ELSE <<Head(s)>> \o EscapeSQ(Tail(s))

\* mutant: an embedded single quote is not escaped
Quote_NoEscape(s) ==
    IF s = <<>> THEN <<SQ, SQ>>
    ELSE IF \A i \in DOMAIN s : s[i] \in SafeChars THEN s
    ELSE <<SQ>> \o s \o <<SQ>>

\* shlex.quote
Quote(s) ==
    IF s = <<>> THEN <<SQ, SQ>>
    ELSE IF \A i \in DOMAIN s : s[i] \in SafeChars THEN s
    ELSE <<SQ>> \o EscapeSQ(s) \o <<SQ>>

\* " ".join(parts)
RECURSIVE JoinSpace(_)
JoinSpace(parts) ==
    IF parts = <<>> THEN <<>>
    ELSE IF Len(parts) = 1 THEN parts[1]
    ELSE parts[1] \o <<" ">> \o JoinSpace(Tail(parts))

\* lines 186 and 194: " ".join(shlex.quote(part) for part in cmd)
RenderCommand(cmd) == JoinSpace([i \in DOMAIN cmd |-> Quote(cmd[i])])

\* lines 185-186: the lines printed for the plan
RenderPlan(cmds) == [i \in DOMAIN cmds |-> RenderCommand(cmds[i])]

(***************************************************************************)
(* Inputs: what the environment can hand to a run                          *)
(***************************************************************************)
\* the sequences over S of length at most n
RECURSIVE SeqsUpTo(_, _)
SeqsUpTo(S, n) ==
    IF n = 0 THEN {<<>>}
    ELSE LET shorter == SeqsUpTo(S, n - 1)
         IN  shorter \cup {Append(q, x) : q \in {r \in shorter : Len(r) = n - 1}, x \in S}

LineBash   == Fence \o <<"b", "a", "s", "h">>
LineFence  == Fence
LinePy     == Fence \o <<"p", "y">>
LineSh     == Fence \o <<" ", "S", "h">>
LineCmd    == <<"g", " ", "a">>
LineQuoted == <<"g", " ", DQ, "a", " ", "b", DQ>>
LineBad    == <<"g", " ", DQ, "a">>
LineBlank  == <<" ">>

\* response texts of the extractor/parser specification: any lines in any order
LinePool == {LineBash, LineFence, LinePy, LineSh, LineCmd, LineQuoted, LineBad, LineBlank}
Texts == {Join(ls) : ls \in SeqsUpTo(LinePool, MaxLines)}

\* responses of a whole run: prose only, or one closed block of command lines
CmdLines == {LineCmd, LineQuoted, LineBad, LineBlank}
Responses ==
    {Join(body) : body \in SeqsUpTo(CmdLines, 1)} \cup
    {Join(<<o>> \o body \o <<LineFence>>) :
        o \in {LineBash, LinePy}, body \in SeqsUpTo(CmdLines, MaxCmds)}

\* args.api_key: no key anywhere (None), an empty key, a key
None == "<None>"
ApiKeys == {None, "", "key"}

\* git exits with 0 or with 128, its status for a fatal error
GitFatal == 128
GitCodes == {0, GitFatal}

OutTrue   == <<"t", "r", "u", "e", NL>>
OutFalse  == <<"f", "a", "l", "s", "e", NL>>
OutChange == <<" ", "M", " ", "a", NL>>

\* rev-parse --is-inside-work-tree: true, false (inside .git), or a failure
ProbeResults ==
    { [rc |-> 0, out |-> OutTrue], [rc |-> 0, out |-> OutFalse],
      [rc |-> GitFatal, out |-> <<>>] }

\* status --porcelain: any exit status, with or without output
QueryResults == [rc : GitCodes, out : {<<>>, OutChange}]

\* the other read-only queries: output on success, none on failure
ContextResults ==
    { [rc |-> 0, out |-> OutChange], [rc |-> GitFatal, out |-> <<>>] }

ExitCodes == 0..MaxCode

(***************************************************************************)
(* Helpers of the run                                                      *)
(***************************************************************************)
Msg(fd, msg, arg) == [fd |-> fd, msg |-> msg, arg |-> arg]

GitProc(q, res) ==
    [kind |-> "git", q |-> q, argv |-> <<>>, rc |-> res.rc, out |-> res.out]

CmdProc(cmd) ==
    [kind |-> "cmd", q |-> "", argv |-> cmd, rc |-> Running, out |-> <<>>]

\* sys.exit(n): the status the parent sees
SysExit(n) == n % 256

\* mutant: check is ignored, every failing query is fatal
RunGit_AlwaysChecked(q, check, res) ==
    IF res.rc # 0
    THEN [proc |-> GitProc(q, res), exits |-> TRUE, code |-> res.rc,
          msgs |-> <<Msg("stderr", "git failed", <<q>>)>>, out |-> <<>>]
    ELSE [proc |-> GitProc(q, res), exits |-> FALSE, code |-> 0,
          msgs |-> <<>>, out |-> res.out]

\* run_git with the result res of the git process: the process is always
\* invoked; the function either raises SystemExit(code) after a report on
\* stderr or returns stdout
RunGit(q, check, res) ==
    IF check /\ res.rc # 0
    THEN [proc |-> GitProc(q, res), exits |-> TRUE, code |-> res.rc,
          msgs |-> <<Msg("stderr", "git failed", <<q>>)>>, out |-> <<>>]
    ELSE [proc |-> GitProc(q, res), exits |-> FALSE, code |-> 0,
          msgs |-> <<>>, out |-> res.out]

\* mutant: only the absent key is caught, an empty key passes
MissingKey_NoneOnly(k) == k = None

\* line 232: not args.api_key
MissingKey(k) == k = None \/ k = ""

\* mutant: an empty extraction is not noticed
ExtractionFailed_Never(block) == FALSE

\* line 252: not bash_block
ExtractionFailed(block) == block = <<>>

\* mutant: the dry-run return is missing
DryRun_Never(ap) == FALSE

\* line 188: not apply
DryRun(ap) == ~ap

\* mutant: the exit status of the child is ignored
CommandFailed_Never(rc) == FALSE

\* line 196: result.returncode != 0
CommandFailed(rc) == rc # 0

\* mutant: the loop walks the plan backwards
NextCommand_Reversed(cmds, i) == cmds[Len(cmds) - i]

\* line 193: the command the for loop takes after it has taken i commands
NextCommand(cmds, i) == cmds[i + 1]

\* mutant: the clean-tree short-circuit is missing
TreeClean_Never(porcelain) == FALSE

\* line 242: porcelain.strip() == ""
TreeClean(porcelain) == Strip(porcelain) = <<>>

\* mutant: the status of the failed probe is propagated
RepoProbeExit_Propagated(code) == code

\* lines 95-97: ensure_repo catches the SystemExit of run_git and exits with 1
RepoProbeExit(code) == 1

(***************************************************************************)
(* Configuration: load_env and the defaults of argparse                    *)
(***************************************************************************)
KeyVar == "GEMINI_API_KEY"
ModelVar == "GITMEUP_MODEL"
ConfigKeys == {KeyVar, ModelVar}

\* a key a source does not define
Unset == "<unset>"
NothingSet == [k \in ConfigKeys |-> Unset]

\* line 216: the built-in model name
DefaultModel == "gemini-2.0-flash-001"

\* what each source can hold for a key; a file line KEY= defines it as empty
EnvValues == {Unset, "", "from-env"}
GlobalValues == {Unset, "", "from-global"}
ProjectValues == {Unset, "from-project"}
CliValues == {Unset, "", "from-cli"}

\* mutant: the file overrides what the environment already holds
LoadDotenv_Override(env, file, override) ==
    [k \in ConfigKeys |-> IF file[k] = Unset THEN env[k] ELSE file[k]]

\* load_dotenv(dotenv_path=..., override=...): the environment after the call
LoadDotenv(env, file, override) ==
    [k \in ConfigKeys |->
        IF file[k] = Unset THEN env[k]
        ELSE IF env[k] # Unset /\ ~override THEN env[k]
        ELSE file[k]]

\* lines 74-76: the global file first, then the project file, none overriding
load_env(env, global, project) ==
    LoadDotenv(LoadDotenv(env, global, FALSE), project, FALSE)

\* os.environ.get(k, default)
EnvironGet(env, k, default) == IF env[k] = Unset THEN default ELSE env[k]

\* an option of argparse: the value given on the command line, else its default
ParsedOption(given, default) == IF given = Unset THEN default ELSE given

(***************************************************************************)
(* The run of main()                                                       *)
(***************************************************************************)
Init ==
    /\ pc = "check_key"
    /\ api_key \in ApiKeys
    /\ sources = [env |-> NothingSet, global |-> NothingSet, project |-> NothingSet,
                  cli |-> [NothingSet EXCEPT ![KeyVar] =
                              IF api_key = None THEN Unset ELSE api_key]]
    /\ environ = NothingSet
    /\ model = DefaultModel
    /\ apply \in BOOLEAN
    /\ procs = <<>>
    /\ child = 0
    /\ llm_calls = 0
    /\ raw_output = <<>>
    /\ bash_block = <<>>
    /\ commands = <<>>
    /\ idx = 0
    /\ printed = <<>>
    /\ exit_code = NoExit

\* sys.exit(code), or the interpreter's exit after an uncaught exception
Exit(code, msgs) ==
    /\ pc' = "done"
    /\ exit_code' = SysExit(code)
    /\ printed' = printed \o msgs

Traceback(exc) == <<Msg("stderr", "traceback", <<exc>>)>>

\* line 208: load_env()
LoadEnv ==
    /\ pc = "load_env"
    /\ environ' = load_env(environ, sources.global, sources.project)
    /\ pc' = "parse_args"
    /\ UNCHANGED <<sources, model, api_key, apply, procs, child, llm_calls,
                   raw_output, bash_block, commands, idx, printed, exit_code>>

\* lines 210-230: the parser's defaults are read from os.environ
ParseArgs ==
    /\ pc = "parse_args"
    /\ model' = ParsedOption(sources.cli[ModelVar],
                             EnvironGet(environ, ModelVar, DefaultModel))
    /\ api_key' = ParsedOption(sources.cli[KeyVar],
                               EnvironGet(environ, KeyVar, None))
    /\ pc' = "check_key"
    /\ UNCHANGED <<sources, environ, apply, procs, child, llm_calls,
                   raw_output, bash_block, commands, idx, printed, exit_code>>

\* lines 232-237
CheckKey ==
    /\ pc = "check_key"
    /\ IF MissingKey(api_key)
       THEN Exit(1, <<Msg("stderr", "missing key", <<>>)>>)
       ELSE /\ pc' = "ensure_repo"
            /\ UNCHANGED <<printed, exit_code>>
    /\ UNCHANGED <<sources, environ, model, api_key, apply, procs, child, llm_calls, raw_output,
                   bash_block, commands, idx>>

\* line 239: ensure_repo()
EnsureRepo ==
    /\ pc = "ensure_repo"
    /\ \E res \in ProbeResults :
         LET r == RunGit("rev-parse --is-inside-work-tree", TRUE, res)
             notrepo == <<Msg("stderr", "not a repository", <<>>)>>
         IN  /\ procs' = Append(procs, r.proc)
             /\ IF r.exits
                THEN Exit(RepoProbeExit(r.code), r.msgs \o notrepo)
                ELSE IF Strip(r.out) # <<"t", "r", "u", "e">>
                THEN Exit(1, notrepo)
                ELSE /\ pc' = "porcelain"
                     /\ UNCHANGED <<printed, exit_code>>
    /\ UNCHANGED <<sources, environ, model, api_key, apply, child, llm_calls, raw_output,
                   bash_block, commands, idx>>

\* lines 241-244
Porcelain ==
    /\ pc = "porcelain"
    /\ \E res \in QueryResults :
         LET r == RunGit("status --porcelain", FALSE, res)
         IN  /\ procs' = Append(procs, r.proc)
             /\ IF r.exits
                THEN Exit(r.code, r.msgs)
                ELSE IF TreeClean(r.out)
                THEN Exit(0, <<Msg("stdout", "working tree clean", <<>>)>>)
                ELSE /\ pc' = "collect_context"
                     /\ UNCHANGED <<printed, exit_code>>
    /\ UNCHANGED <<sources, environ, model, api_key, apply, child, llm_calls, raw_output,
                   bash_block, commands, idx>>

\* lines 246-247: collect_context() and the (pure) prompt builder
CollectContext ==
    /\ pc = "collect_context"
    /\ \E res1 \in ContextResults, res2 \in ContextResults, res3 \in ContextResults :
         LET a == RunGit("diff --stat", FALSE, res1)
             b == RunGit("status --short", FALSE, res2)
             c == RunGit("diff -- . :(exclude)", FALSE, res3)
         IN  IF a.exits
             THEN procs' = Append(procs, a.proc) /\ Exit(a.code, a.msgs)
             ELSE IF b.exits
             THEN procs' = procs \o <<a.proc, b.proc>> /\ Exit(b.code, b.msgs)
             ELSE IF c.exits
             THEN procs' = procs \o <<a.proc, b.proc, c.proc>> /\ Exit(c.code, c.msgs)
             ELSE /\ procs' = procs \o <<a.proc, b.proc, c.proc>>
                  /\ pc' = "call_llm"
                  /\ UNCHANGED <<printed, exit_code>>
    /\ UNCHANGED <<sources, environ, model, api_key, apply, child, llm_calls, raw_output,
                   bash_block, commands, idx>>

\* line 248: call_llm returns one response, or the gateway's error propagates
CallLLM ==
    /\ pc = "call_llm"
    /\ llm_calls' = llm_calls + 1
    /\ \/ /\ raw_output' \in Responses
          /\ pc' = "extract"
          /\ UNCHANGED <<printed, exit_code>>
       \/ /\ Exit(1, Traceback("gateway error"))
          /\ UNCHANGED raw_output
    /\ UNCHANGED <<sources, environ, model, api_key, apply, procs, child, bash_block, commands, idx>>

\* lines 250-258
ExtractBlock ==
    /\ pc = "extract"
    /\ bash_block' = extract_bash_block(raw_output)
    /\ IF ExtractionFailed(bash_block')
       THEN Exit(1, <<Msg("stderr", "failed to extract", <<>>),
                      Msg("stdout", "raw output", raw_output)>>)
       ELSE /\ pc' = "parse"
            /\ UNCHANGED <<printed, exit_code>>
    /\ UNCHANGED <<sources, environ, model, api_key, apply, procs, child, llm_calls, raw_output,
                   commands, idx>>

\* line 260: a ValueError of the tokenizer is not caught anywhere
ParseCommands ==
    /\ pc = "parse"
    /\ LET r == parse_commands(bash_block)
       IN  IF r.ok
           THEN /\ commands' = r.cmds
                /\ pc' = "run_commands"
                /\ UNCHANGED <<printed, exit_code>>
           ELSE /\ Exit(1, Traceback(r.err))
                /\ UNCHANGED commands
    /\ UNCHANGED <<sources, environ, model, api_key, apply, procs, child, llm_calls, raw_output,
                   bash_block, idx>>

\* lines 184-192: run_commands up to its for loop
PlanCommands ==
    /\ pc = "run_commands"
    /\ IF DryRun(apply)
       THEN /\ printed' = printed \o <<Msg("stdout", "proposed commands", RenderPlan(commands)),
                                       Msg("stdout", "dry run", <<>>)>>
            /\ pc' = "final_status"
       ELSE /\ printed' = printed \o <<Msg("stdout", "proposed commands", RenderPlan(commands)),
                                       Msg("stdout", "executing commands", <<>>)>>
            /\ pc' = "exec"
    /\ UNCHANGED <<sources, environ, model, api_key, apply, procs, child, llm_calls, raw_output,
                   bash_block, commands, idx, exit_code>>

\* lines 193-195: the loop takes its next command and starts the child
ExecStart ==
    /\ pc = "exec"
    /\ idx < Len(commands)
    /\ LET cmd == NextCommand(commands, idx)
       IN  /\ printed' = Append(printed, Msg("stdout", "+", RenderCommand(cmd)))
           /\ procs' = Append(procs, CmdProc(cmd))
    /\ child' = Len(procs')
    /\ idx' = idx + 1
    /\ pc' = "wait"
    /\ UNCHANGED <<sources, environ, model, api_key, apply, llm_calls, raw_output, bash_block,
                   commands, exit_code>>

\* line 195: the program of the command cannot be started; subprocess.run
\* raises OSError and no process exists
ExecRaises ==
    /\ pc = "exec"
    /\ idx < Len(commands)
    /\ LET cmd == NextCommand(commands, idx)
       IN  Exit(1, <<Msg("stdout", "+", RenderCommand(cmd))>> \o Traceback("OSError"))
    /\ idx' = idx + 1
    /\ UNCHANGED <<sources, environ, model, api_key, apply, procs, child, llm_calls, raw_output,
                   bash_block, commands>>

\* mutant: the failure is reported but the run is not ended
ChildExit_NoExit ==
    /\ pc = "wait"
    /\ child # 0
    /\ \E rc \in ExitCodes :
         /\ procs' = [procs EXCEPT ![child].rc = rc]
         /\ IF CommandFailed(rc)
            THEN printed' = Append(printed, Msg("stderr", "command failed", <<rc>>))
            ELSE UNCHANGED printed
    /\ pc' = "exec"
    /\ child' = 0
    /\ UNCHANGED <<sources, environ, model, api_key, apply, llm_calls, raw_output,
                   bash_block, commands, idx, exit_code>>

\* lines 195-201: the child exits and subprocess.run returns
ChildExit ==
    /\ pc = "wait"
    /\ child # 0
    /\ \E rc \in ExitCodes :
         /\ procs' = [procs EXCEPT ![child].rc = rc]
         /\ IF CommandFailed(rc)
            THEN Exit(rc, <<Msg("stderr", "command failed", <<rc>>)>>)
            ELSE /\ pc' = "exec"
                 /\ UNCHANGED <<printed, exit_code>>
    /\ child' = 0
    /\ UNCHANGED <<sources, environ, model, api_key, apply, llm_calls, raw_output, bash_block,
                   commands, idx>>

\* mutant: the end of the loop is tested one command too late
ExecDone_OffByOne ==
    /\ pc = "exec"
    /\ idx > Len(commands)
    /\ printed' = Append(printed, Msg("stdout", "commands executed", <<>>))
    /\ pc' = "final_status"
    /\ UNCHANGED <<sources, environ, model, api_key, apply, procs, child,
                   llm_calls, raw_output, bash_block, commands, idx, exit_code>>

\* mutant: the completion marker is printed from inside the loop
ExecDone_Early ==
    /\ pc = "exec"
    /\ printed' = Append(printed, Msg("stdout", "commands executed", <<>>))
    /\ pc' = "final_status"
    /\ UNCHANGED <<sources, environ, model, api_key, apply, procs, child,
                   llm_calls, raw_output, bash_block, commands, idx, exit_code>>

\* line 203: the loop is exhausted
ExecDone ==
    /\ pc = "exec"
    /\ idx >= Len(commands)
    /\ printed' = Append(printed, Msg("stdout", "commands executed", <<>>))
    /\ pc' = "final_status"
    /\ UNCHANGED <<sources, environ, model, api_key, apply, procs, child, llm_calls, raw_output,
                   bash_block, commands, idx, exit_code>>

\* lines 263-267: the final status query, then main returns
FinalStatus ==
    /\ pc = "final_status"
    /\ \E res \in ContextResults :
         LET r == RunGit("status -sb", FALSE, res)
         IN  /\ procs' = Append(procs, r.proc)
             /\ IF r.exits
                THEN Exit(r.code, r.msgs)
                ELSE Exit(0, <<Msg("stdout", "final git status", r.out)>>)
    /\ UNCHANGED <<sources, environ, model, api_key, apply, child, llm_calls, raw_output,
                   bash_block, commands, idx>>

Next ==
    \/ CheckKey
    \/ EnsureRepo
    \/ Porcelain
    \/ CollectContext
    \/ CallLLM
    \/ ExtractBlock
    \/ ParseCommands
    \/ PlanCommands
    \/ ExecStart
    \/ ExecRaises
    \/ ChildExit
    \/ ExecDone
    \/ FinalStatus

Spec == Init /\ [][Next]_vars

(***************************************************************************)
(* The run with the scheduling of run_commands: the loop always takes its  *)
(* next step (it is sequential code), and a child that was started exits.  *)
(***************************************************************************)
SpecFair ==
    /\ Init /\ [][Next]_vars
    /\ WF_vars(ExecStart \/ ExecRaises)
    /\ WF_vars(ChildExit)
    /\ WF_vars(ExecDone)

(***************************************************************************)
(* The extractor and the parser alone, on any text                         *)
(***************************************************************************)
InitText ==
    /\ pc = "extract"
    /\ api_key = "key"
    /\ sources = [env |-> NothingSet, global |-> NothingSet, project |-> NothingSet,
                  cli |-> [NothingSet EXCEPT ![KeyVar] = "key"]]
    /\ environ = NothingSet
    /\ model = DefaultModel
    /\ apply = FALSE
    /\ procs = <<>>
    /\ child = 0
    /\ llm_calls = 1
    /\ raw_output \in Texts
    /\ bash_block = <<>>
    /\ commands = <<>>
    /\ idx = 0
    /\ printed = <<>>
    /\ exit_code = NoExit

NextText ==
    \/ ExtractBlock
    \/ ParseCommands

SpecText == InitText /\ [][NextText]_vars

(***************************************************************************)
(* The configuration alone, on any content of the four sources             *)
(***************************************************************************)
InitConfig ==
    /\ pc = "load_env"
    /\ sources \in [env : [ConfigKeys -> EnvValues],
                    global : [ConfigKeys -> GlobalValues],
                    project : [ConfigKeys -> ProjectValues],
                    cli : [ConfigKeys -> CliValues]]
    /\ environ = sources.env
    /\ model = None
    /\ api_key = None
    /\ apply = FALSE
    /\ procs = <<>>
    /\ child = 0
    /\ llm_calls = 0
    /\ raw_output = <<>>
    /\ bash_block = <<>>
    /\ commands = <<>>
    /\ idx = 0
    /\ printed = <<>>
    /\ exit_code = NoExit

NextConfig ==
    \/ LoadEnv
    \/ ParseArgs

SpecConfig == InitConfig /\ [][NextConfig]_vars

(***************************************************************************)
(* The rendering of a plan alone, on any command of any tokens without a   *)
(* line break                                                              *)
(***************************************************************************)
QuoteAlphabet == {"a", "-", " ", SQ, DQ, BS}

Tokens == SeqsUpTo(QuoteAlphabet, MaxTokLen)

CommandVectors == SeqsUpTo(Tokens, MaxToks) \ {<<>>}

InitQuote ==
    /\ pc = "run_commands"
    /\ api_key = "key"
    /\ sources = [env |-> NothingSet, global |-> NothingSet, project |-> NothingSet,
                  cli |-> [NothingSet EXCEPT ![KeyVar] = "key"]]
    /\ environ = NothingSet
    /\ model = DefaultModel
    /\ apply = FALSE
    /\ procs = <<>>
    /\ child = 0
    /\ llm_calls = 1
    /\ raw_output = <<>>
    /\ bash_block = <<>>
    /\ commands \in {<<cmd>> : cmd \in CommandVectors}
    /\ idx = 0
    /\ printed = <<>>
    /\ exit_code = NoExit

NextQuote == PlanCommands

SpecQuote == InitQuote /\ [][NextQuote]_vars

TypeOK ==
    /\ pc \in {"load_env", "parse_args", "check_key", "ensure_repo", "porcelain", "collect_context",
               "call_llm", "extract", "parse", "run_commands", "exec", "wait",
               "final_status", "done"}
    /\ apply \in BOOLEAN
    /\ child \in 0..Len(procs)
    /\ idx \in 0..Len(commands)
    /\ exit_code \in {NoExit} \cup 0..255
    /\ (pc = "done") = (exit_code # NoExit)

(***************************************************************************)
(* Vocabulary of the properties                                            *)
(***************************************************************************)
\* the plan commands invoked so far, in order of invocation
CmdLog == SelectSeq(procs, LAMBDA p : p.kind = "cmd")

HasMsg(fd, msg, arg) ==
    \E i \in DOMAIN printed :
        printed[i].fd = fd /\ printed[i].msg = msg /\ printed[i].arg = arg

HasMsgKind(msg) == \E i \in DOMAIN printed : printed[i].msg = msg

\* neither --api-key nor the environment gave a key (absent or empty)
NoKey == api_key \in {None, ""}

\* a plan command has exited with a non-zero status
Failed(p) == p.rc # 0 /\ p.rc # Running

\* the model gateway returned a response
Responded == llm_calls > 0 /\ ~HasMsg("stderr", "traceback", <<"gateway error">>)

\* the four read-only queries that describe the working tree
ContextQueries ==
    {"status --porcelain", "diff --stat", "status --short", "diff -- . :(exclude)"}

\* a non-blank line of the block ends inside a quote
HasUnterminatedQuote(block) ==
    \E i \in DOMAIN SplitLines(block) :
        LET line == Strip(SplitLines(block)[i])
        IN  line # <<>> /\ ShlexSplit(line).err = "No closing quotation"

(***************************************************************************)
(* C1  In apply mode, when a command of the plan exits non-zero, the       *)
(* commands invoked are exactly the plan up to and including that command, *)
(* each once and in order, all before it exited with 0, nothing is invoked *)
(* after it, its exit code is reported and is the status of the run, and   *)
(* the run is over without the completion marker.                          *)
(***************************************************************************)
C1_FailFast ==
    \A k \in DOMAIN CmdLog :
        Failed(CmdLog[k]) =>
            /\ apply
            /\ k = Len(CmdLog)
            /\ \A i \in 1..k : CmdLog[i].argv = commands[i]
            /\ \A i \in 1..(k - 1) : CmdLog[i].rc = 0
            /\ procs[Len(procs)] = CmdLog[k]
            /\ HasMsg("stderr", "command failed", <<CmdLog[k].rc>>)
            /\ ~HasMsgKind("commands executed")
            /\ pc = "done"
            /\ exit_code = CmdLog[k].rc

\* three commands of which the second failed after the first succeeded
C1_Witness ==
    /\ apply /\ pc = "done"
    /\ Len(commands) = 3
    /\ Len(CmdLog) = 2
    /\ CmdLog[1].rc = 0
    /\ CmdLog[2].rc = 2
    /\ exit_code = 2

(***************************************************************************)
(* C2  as stated: with apply = false no external process is invoked: from  *)
(* the moment the plan is handed to run_commands to the end of the run     *)
(* (lines 260-264) the log of invoked processes does not grow.             *)
(***************************************************************************)
C2_Original ==
    [][(~apply /\ pc \in {"run_commands", "final_status"}) => procs' = procs]_vars

(***************************************************************************)
(* C2  amended: with apply = false no command of the plan is ever invoked; *)
(* run_commands prints the proposed commands and the dry-run notice and    *)
(* returns, and the only processes of the run are the tool's git queries.  *)
(***************************************************************************)
C2_DryRunInvokesNoCommand ==
    ~apply =>
        /\ CmdLog = <<>>
        /\ child = 0
        /\ pc \notin {"exec", "wait"}
        /\ ~HasMsgKind("executing commands")
        /\ (pc \in {"final_status", "done"} /\ HasMsgKind("proposed commands")
              => HasMsg("stdout", "dry run", <<>>))

C2_Witness ==
    /\ ~apply /\ pc = "done"
    /\ Len(commands) = 3
    /\ HasMsg("stdout", "proposed commands", RenderPlan(commands))
    /\ HasMsg("stdout", "dry run", <<>>)
    /\ procs[Len(procs)].q = "status -sb"

(***************************************************************************)
(* C3  The plan commands invoked so far are always a prefix of the parsed  *)
(* commands, position by position; every one but the last has exited (with *)
(* 0) before the next was started, and at most the last one is running.    *)
(***************************************************************************)
C3_OrderPreserved ==
    /\ Len(CmdLog) <= Len(commands)
    /\ Len(CmdLog) <= idx
    /\ \A i \in DOMAIN CmdLog : CmdLog[i].argv = commands[i]
    /\ \A i \in 1..(Len(CmdLog) - 1) : CmdLog[i].rc = 0
    /\ (child # 0) = (CmdLog # <<>> /\ CmdLog[Len(CmdLog)].rc = Running)
    /\ (child # 0 => child = Len(procs) /\ procs[child].kind = "cmd" /\ pc = "wait")

\* the third of three commands runs, after two different ones exited
C3_Witness ==
    /\ apply /\ pc = "wait"
    /\ Len(CmdLog) = 3
    /\ commands[1] # commands[2]
    /\ CmdLog[3].rc = Running

(***************************************************************************)
(* C4  When a non-blank line of the extracted block ends inside a quote,   *)
(* the parse fails as a whole: no command vector exists, not even for the  *)
(* well-formed lines before it, nothing is proposed and no command is      *)
(* invoked, whatever the mode; the run ends with the uncaught error.       *)
(***************************************************************************)
C4_UnterminatedQuoteFailsParse ==
    (bash_block # <<>> /\ pc # "parse" /\ HasUnterminatedQuote(bash_block)) =>
        /\ commands = <<>>
        /\ CmdLog = <<>>
        /\ ~HasMsgKind("proposed commands")
        /\ HasMsg("stderr", "traceback", <<"No closing quotation">>)
        /\ pc = "done"
        /\ exit_code = 1

\* a well-formed line precedes the line with the open quote, in apply mode
C4_Witness ==
    /\ apply /\ pc = "done"
    /\ bash_block # <<>>
    /\ Len(SplitLines(bash_block)) >= 2
    /\ ShlexSplit(SplitLines(bash_block)[1]).ok
    /\ HasUnterminatedQuote(bash_block)
    /\ commands = <<>>

(***************************************************************************)
(* Fenced blocks of a text, as the extractor's contract reads them: a      *)
(* fence line opens a block, the next fence line (or the end of the text)  *)
(* closes it, and the line after the closing fence is outside any block.   *)
(***************************************************************************)
IsFenceLine(line) == StartsWith(line, Fence)

\* index of the first fence line of ls at or after i, 0 when there is none
RECURSIVE NextFence(_, _)
NextFence(ls, i) ==
    IF i > Len(ls) THEN 0
    ELSE IF IsFenceLine(ls[i]) THEN i ELSE NextFence(ls, i + 1)

\* the body of the block opened at line o
BlockBody(ls, o) ==
    LET c == NextFence(ls, o + 1)
    IN  SubSeq(ls, o + 1, IF c = 0 THEN Len(ls) ELSE c - 1)

\* the first block at or after line i whose tag is recognized
RECURSIVE FirstRecognized(_, _)
FirstRecognized(ls, i) ==
    LET o == NextFence(ls, i) IN
    IF o = 0 THEN [found |-> FALSE, body |-> <<>>]
    ELSE IF LangOk(ls[o]) THEN [found |-> TRUE, body |-> BlockBody(ls, o)]
    ELSE LET c == NextFence(ls, o + 1)
         IN  IF c = 0 THEN [found |-> FALSE, body |-> <<>>]
             ELSE FirstRecognized(ls, c + 1)

RawLines == SplitLines(raw_output)

FirstBlockUnrecognized ==
    NextFence(RawLines, 1) # 0 /\ ~LangOk(RawLines[NextFence(RawLines, 1)])

(***************************************************************************)
(* C5  as stated: whenever the response contains a fenced block whose tag  *)
(* is bash, sh, shell (in any case) or empty, the extraction is the        *)
(* trimmed body of the first such block.                                   *)
(***************************************************************************)
C5_Original ==
    (pc # "extract" /\ FirstRecognized(RawLines, 1).found) =>
        bash_block = Strip(Join(FirstRecognized(RawLines, 1).body))

(***************************************************************************)
(* C6  as stated: when the first fenced block of the response has an       *)
(* unrecognized tag, none of its body is captured, the scan goes on after  *)
(* its closing fence, and the extraction is the trimmed body of the first  *)
(* recognized block after it (empty when there is none).                   *)
(***************************************************************************)
C6_Original ==
    (pc # "extract" /\ FirstBlockUnrecognized) =>
        bash_block = Strip(Join(FirstRecognized(RawLines, 1).body))

(***************************************************************************)
(* C7  The exit status of a finished run: 1 without a key, 1 when the      *)
(* probe fails or does not answer true, 0 when the porcelain status is     *)
(* blank, 1 when the extraction is empty, the child's exit code when a     *)
(* plan command fails, and 0 when the run reaches its final status query.  *)
(***************************************************************************)
C7_ExitCodes ==
    pc = "done" =>
        /\ NoKey => exit_code = 1
        /\ (procs # <<>> /\ (procs[1].rc # 0 \/ Strip(procs[1].out) # <<"t", "r", "u", "e">>))
              => exit_code = 1
        /\ (Len(procs) = 2 /\ procs[1].rc = 0 /\ Strip(procs[2].out) = <<>>)
              => exit_code = 0
        /\ (Responded /\ extract_bash_block(raw_output) = <<>>) => exit_code = 1
        /\ \A k \in DOMAIN CmdLog : Failed(CmdLog[k]) => exit_code = CmdLog[k].rc
        /\ (procs # <<>> /\ procs[Len(procs)].q = "status -sb") => exit_code = 0

\* the probe itself failed with git's status 128 and the run ended with 1
C7_Witness ==
    /\ pc = "done"
    /\ Len(procs) = 1
    /\ procs[1].rc = GitFatal
    /\ exit_code = 1

(***************************************************************************)
(* C8  Without an API key (absent or empty) no process is ever invoked and *)
(* the model is never called: the run reports the missing key and ends     *)
(* with status 1 at its first step.                                        *)
(***************************************************************************)
C8_NoKeyNoCalls ==
    NoKey =>
        /\ procs = <<>>
        /\ llm_calls = 0
        /\ pc \in {"check_key", "done"}
        /\ (pc = "done" => exit_code = 1 /\ HasMsg("stderr", "missing key", <<>>))

C8_Witness ==
    /\ api_key = ""
    /\ pc = "done"
    /\ exit_code = 1
    /\ procs = <<>>

(***************************************************************************)
(* C9  as stated: a failing change-summary, short-status, textual-diff or  *)
(* porcelain-status query is reported and ends the run with a non-zero     *)
(* status.                                                                 *)
(***************************************************************************)
C9_Original ==
    \A i \in DOMAIN procs :
        (procs[i].kind = "git" /\ procs[i].q \in ContextQueries /\ procs[i].rc # 0) =>
            /\ pc = "done"
            /\ exit_code \notin {0, NoExit}
            /\ HasMsg("stderr", "git failed", <<procs[i].q>>)

(***************************************************************************)
(* C9  amended: only the repository probe is fatal: when it fails, the     *)
(* failure is reported, nothing else is invoked and the run ends with 1.   *)
(* A failing change-summary, short-status, textual-diff or porcelain query *)
(* is never reported and never ends the run: the run goes on with what the *)
(* query wrote (a blank porcelain output ends it with status 0 as a clean  *)
(* tree, any other leads to the context queries and to the model call).    *)
(***************************************************************************)
C9_OnlyProbeIsFatal ==
    /\ (procs # <<>> /\ procs[1].rc # 0) =>
          /\ procs[1].q = "rev-parse --is-inside-work-tree"
          /\ Len(procs) = 1
          /\ pc = "done"
          /\ exit_code = 1
          /\ HasMsg("stderr", "not a repository", <<>>)
    /\ \A i \in DOMAIN procs :
          (procs[i].kind = "git" /\ procs[i].q \in ContextQueries /\ procs[i].rc # 0) =>
              /\ ~HasMsg("stderr", "git failed", <<procs[i].q>>)
              /\ IF procs[i].q = "status --porcelain"
                 THEN IF Strip(procs[i].out) = <<>>
                      THEN /\ pc = "done" /\ exit_code = 0
                           /\ HasMsg("stdout", "working tree clean", <<>>)
                      ELSE pc = "collect_context" \/ Len(procs) >= 5
                 ELSE pc = "call_llm" \/ llm_calls = 1

\* every query failed and the run still reached the model and a plan
C9_Witness ==
    /\ Len(procs) >= 5
    /\ \A i \in 2..5 : procs[i].q \in ContextQueries /\ procs[i].rc = GitFatal
    /\ pc = "run_commands"
    /\ commands # <<>>

(***************************************************************************)
(* C10 When the extraction of the response is empty, the run prints the    *)
(* raw response and ends with status 1; nothing is parsed, nothing is      *)
(* proposed and no command is invoked, whatever the mode.                  *)
(***************************************************************************)
C10_EmptyExtractionStops ==
    (Responded /\ pc # "extract" /\ extract_bash_block(raw_output) = <<>>) =>
        /\ pc = "done"
        /\ exit_code = 1
        /\ HasMsg("stderr", "failed to extract", <<>>)
        /\ HasMsg("stdout", "raw output", raw_output)
        /\ commands = <<>>
        /\ ~HasMsgKind("proposed commands")
        /\ ~HasMsgKind("traceback")
        /\ CmdLog = <<>>

\* a recognized block whose body is only whitespace, in apply mode
C10_Witness ==
    /\ apply /\ pc = "done"
    /\ Responded
    /\ FirstRecognized(RawLines, 1).found
    /\ FirstRecognized(RawLines, 1).body # <<>>
    /\ bash_block = <<>>
    /\ HasMsg("stdout", "raw output", raw_output)


(***************************************************************************)
(* C11 The model gateway is called at most once in a run, and only after   *)
(* the key check passed, the probe answered true and the porcelain query   *)
(* gave a non-blank output; after a blank porcelain output the run is over *)
(* with status 0, the model was never called and no command was invoked.   *)
(***************************************************************************)
C11_OneModelCallAfterChecks ==
    /\ llm_calls <= 1
    /\ (llm_calls = 1 \/ pc = "call_llm") =>
          /\ ~NoKey
          /\ Len(procs) >= 2
          /\ procs[1].q = "rev-parse --is-inside-work-tree"
          /\ procs[1].rc = 0
          /\ Strip(procs[1].out) = <<"t", "r", "u", "e">>
          /\ procs[2].q = "status --porcelain"
          /\ Strip(procs[2].out) # <<>>
    /\ (Len(procs) >= 2 /\ Strip(procs[2].out) = <<>>) =>
          /\ pc = "done"
          /\ exit_code = 0
          /\ llm_calls = 0
          /\ Len(procs) = 2
          /\ CmdLog = <<>>

\* the model was called once and the run went on to its end
C11_Witness ==
    /\ llm_calls = 1
    /\ pc = "done"
    /\ apply
    /\ Len(CmdLog) = 3


(***************************************************************************)
(* C12 When no line of the response is a fence line, the extraction is     *)
(* empty.                                                                  *)
(***************************************************************************)
C12_NoFenceNoBlock ==
    (pc # "extract" /\ NextFence(RawLines, 1) = 0) =>
        /\ bash_block = <<>>
        /\ pc = "done"
        /\ commands = <<>>

\* several lines of commands and not one fence
C12_Witness ==
    /\ pc = "done"
    /\ Len(RawLines) >= 2
    /\ NextFence(RawLines, 1) = 0
    /\ \E i \in DOMAIN RawLines : Strip(RawLines[i]) # <<>>
    /\ bash_block = <<>>

NonBlankLines(block) == SelectSeq(SplitLines(block), LAMBDA l : Strip(l) # <<>>)

\* git add "file one.txt" / git commit -m "feat: add file"
ExampleBlock ==
    <<"g", "i", "t", " ", "a", "d", "d", " ", DQ, "f", "i", "l", "e", " ",
      "o", "n", "e", ".", "t", "x", "t", DQ, NL, "g", "i", "t", " ", "c",
      "o", "m", "m", "i", "t", " ", "-", "m", " ", DQ, "f", "e", "a", "t",
      ":", " ", "a", "d", "d", " ", "f", "i", "l", "e", DQ>>

ExampleVectors ==
    << << <<"g", "i", "t">>,
          <<"a", "d", "d">>,
          <<"f", "i", "l", "e", " ", "o", "n", "e", ".", "t", "x", "t">> >>,
       << <<"g", "i", "t">>,
          <<"c", "o", "m", "m", "i", "t">>,
          <<"-", "m">>,
          <<"f", "e", "a", "t", ":", " ", "a", "d", "d", " ", "f", "i", "l", "e">> >> >>

C14_OneVectorPerLine ==
    /\ parse_commands(ExampleBlock) = [ok |-> TRUE, cmds |-> ExampleVectors, err |-> ""]
    /\ pc = "run_commands" =>
          LET nb == NonBlankLines(bash_block) IN
          /\ Len(commands) = Len(nb)
          /\ \A i \in DOMAIN commands :
                /\ commands[i] = ShlexSplit(Strip(nb[i])).toks
                /\ commands[i] # <<>>

\* two commands around a whitespace-only line
C14_Witness ==
    /\ pc = "run_commands"
    /\ Len(SplitLines(bash_block)) = 3
    /\ Strip(SplitLines(bash_block)[2]) = <<>>
    /\ Len(commands) = 2
    /\ Len(commands[2]) = 2


(***************************************************************************)
(* C15 Every line printed for the plan, tokenized again by shlex.split,    *)
(* gives back the command it was rendered from, token by token.            *)
(***************************************************************************)
C15_RenderRoundTrip ==
    \A j \in DOMAIN printed :
        printed[j].msg = "proposed commands" =>
            /\ Len(printed[j].arg) = Len(commands)
            /\ \A i \in DOMAIN commands :
                  ShlexSplit(printed[j].arg[i]) =
                      [ok |-> TRUE, toks |-> commands[i], err |-> ""]

\* an empty token next to a token that holds a single quote and a space
C15_Witness ==
    /\ HasMsgKind("proposed commands")
    /\ commands = << << <<>>, <<SQ, " ">> >> >>


(***************************************************************************)
(* C16 After load_env every key holds the value the environment had for    *)
(* it, else the global file's, else the project file's; after argparse the *)
(* key and the model are the command line's value when one is given, else  *)
(* that resolved value, else the default (no key, the built-in model).     *)
(***************************************************************************)
\* the value the three layers give to key k, Unset when none defines it
Layered(k) ==
    IF sources.env[k] # Unset THEN sources.env[k]
    ELSE IF sources.global[k] # Unset THEN sources.global[k]
    ELSE sources.project[k]

Resolved(k, default) ==
    IF sources.cli[k] # Unset THEN sources.cli[k]
    ELSE IF Layered(k) # Unset THEN Layered(k)
    ELSE default

C17_NothingAfterFailure ==
    (\E k \in DOMAIN CmdLog : Failed(CmdLog[k])) =>
        /\ pc = "done"
        /\ child = 0
        /\ Len(procs) = 5 + Len(CmdLog)
        /\ SubSeq(procs, 6, Len(procs)) = CmdLog
        /\ \A i \in 1..5 : procs[i].kind = "git" /\ procs[i].q # "status -sb"
        /\ Failed(procs[Len(procs)])
        /\ ~HasMsgKind("final git status")

\* the first of three commands failed and nothing followed it
C17_Witness ==
    /\ apply /\ pc = "done"
    /\ Len(commands) = 3
    /\ Len(CmdLog) = 1
    /\ Failed(CmdLog[1])
    /\ Len(procs) = 6

(***************************************************************************)
(* C18 The completion marker is printed only in apply mode and only when   *)
(* every command of the plan was invoked and exited with 0; and once       *)
(* run_commands is over in apply mode with every command invoked and       *)
(* exited with 0, it has been printed.                                     *)
(***************************************************************************)
AllRanOk ==
    /\ Len(CmdLog) = Len(commands)
    /\ \A i \in DOMAIN CmdLog : CmdLog[i].rc = 0

C18_CompletionMarker ==
    /\ HasMsgKind("commands executed") => apply /\ AllRanOk
    /\ (apply /\ HasMsgKind("executing commands") /\ pc \in {"final_status", "done"}
          /\ AllRanOk) => HasMsgKind("commands executed")

\* all three commands of a plan ran and the marker was printed
C18_Witness ==
    /\ apply /\ pc = "done"
    /\ Len(commands) = 3
    /\ AllRanOk
    /\ HasMsg("stdout", "commands executed", <<>>)

(***************************************************************************)
(* C19 The plan handed to run_commands is never empty: after the           *)
(* extraction and the parse a run has either stopped at the extraction     *)
(* error with an empty block, or failed in the parse of a non-empty block, *)
(* or it holds at least one command.                                       *)
(***************************************************************************)
C19_PlanNeverEmpty ==
    /\ (pc = "run_commands" \/ HasMsgKind("proposed commands")) => commands # <<>>
    /\ (Responded /\ pc \notin {"extract", "parse"}) =>
          \/ /\ bash_block = <<>> /\ commands = <<>>
             /\ pc = "done" /\ HasMsgKind("failed to extract")
          \/ /\ bash_block # <<>> /\ commands = <<>>
             /\ pc = "done" /\ HasMsgKind("traceback")
          \/ /\ bash_block # <<>> /\ commands # <<>>

\* a block of blank lines around a single command
C19_Witness ==
    /\ pc = "run_commands"
    /\ Len(commands) = 1
    /\ \E i \in DOMAIN RawLines : Strip(RawLines[i]) = <<>>
    /\ bash_block # <<>>


(***************************************************************************)
(* The ways run_commands can end in apply mode                             *)
(***************************************************************************)
\* aborted at the first command that exited non-zero
AbortedAtFailure ==
    /\ pc = "done"
    /\ CmdLog # <<>>
    /\ Failed(CmdLog[Len(CmdLog)])
    /\ \A i \in 1..(Len(CmdLog) - 1) : CmdLog[i].rc = 0
    /\ exit_code = CmdLog[Len(CmdLog)].rc
    /\ ~HasMsgKind("commands executed")

\* completed after every command ran and exited with 0
CompletedAll ==
    /\ HasMsgKind("commands executed")
    /\ AllRanOk
    /\ pc \in {"final_status", "done"}

\* ended by the exception of subprocess.run for a command that could not be
\* started, after the commands before it exited with 0
EndedAtStart ==
    /\ pc = "done"
    /\ HasMsg("stderr", "traceback", <<"OSError">>)
    /\ Len(CmdLog) < Len(commands)
    /\ \A i \in DOMAIN CmdLog : CmdLog[i].rc = 0
    /\ exit_code = 1
    /\ ~HasMsgKind("commands executed")

\* run_commands is over, in apply mode
ApplyOver ==
    apply /\ HasMsgKind("executing commands") /\ pc \in {"final_status", "done"}

(***************************************************************************)
(* C20 as stated: when the execution of a plan is over in apply mode, it   *)
(* was either aborted at the first command that exited non-zero or         *)
(* completed after all commands ran.                                       *)
(***************************************************************************)
C20_Original ==
    ApplyOver => (AbortedAtFailure \/ CompletedAll)

(***************************************************************************)
(* C20 amended: in apply mode, if every started child exits, the execution *)
(* of the plan is eventually over, and it is over in exactly one of three  *)
(* ways: aborted at the first command that exited non-zero, ended by the   *)
(* exception of the first command that could not be started, or completed  *)
(* after all commands ran.                                                 *)
(***************************************************************************)
C20_ApplyTerminates ==
    /\ (apply /\ pc = "exec") ~> ApplyOver
    /\ [](ApplyOver =>
            /\ AbortedAtFailure \/ EndedAtStart \/ CompletedAll
            /\ ~(AbortedAtFailure /\ EndedAtStart)
            /\ ~(AbortedAtFailure /\ CompletedAll)
            /\ ~(EndedAtStart /\ CompletedAll))

\* a plan of three commands was completed
C20_Witness ==
    /\ ApplyOver
    /\ Len(commands) = 3
    /\ CompletedAll
    /\ pc = "done"

=============================================================================
